---- MODULE Spec2Model ----
(***************************************************************************)
(* The asynchronous job pipeline of src/main.py: POST /transcribe/         *)
(* (transcribe_audio), the background pipeline (process_audio_wrapper,     *)
(* process_audio_task and its two heartbeat tasks), the registry           *)
(* tasks_status with update_task_status, and GET /task_status/{task_id}    *)
(* (get_task_status).                                                      *)
(*                                                                         *)
(* Threads.  The two HTTP handlers run on the server's event loop.  Every  *)
(* accepted request gets one worker thread running process_audio_wrapper,  *)
(* which owns a private event loop (asyncio.run).  On that loop live the   *)
(* coroutine process_audio_task and, while an adapter call is awaited, one *)
(* heartbeat task; the adapter call itself (run_whisper, run_gpt) runs on  *)
(* a further thread (run_in_executor).  A registry write is one dict       *)
(* assignment, so every write is a step a concurrent poll can observe.     *)
(* Tasks of one loop interleave only where the coroutine awaits.           *)
(*                                                                         *)
(* The Google Drive export of the same file: GET /oauth/google             *)
(* (start_oauth), GET /oauth/callback (oauth_callback) with the dicts      *)
(* export_content and oauth_tokens, GET /drive-folders/{token_id}          *)
(* (get_folder_list) and build_folder_hierarchy.  These handlers run on    *)
(* the server's event loop; oauth_callback gives the loop up only while it *)
(* awaits the answer of the token endpoint.                                *)
(***************************************************************************)
EXTENDS Integers, Sequences, FiniteSets, TLC

\* ------------------------------------------------------------------ bounds

\* Number of POST /transcribe/ requests in a run.
MaxJobs == 2

Jobs == 1..MaxJobs

\* Job ids (uuid4 values); one more than requests, so one is never issued.
Ids == {<<"uuid", n>> : n \in 1..(MaxJobs + 1)}

NoId == <<>>

\* Requests to /oauth/google and to /oauth/callback that are considered.
MaxContents == 2
MaxCallbacks == 2
Callbacks == 1..MaxCallbacks
ContentIds == {<<"content", n>> : n \in 1..MaxContents}

\* Before get_folder_list has answered; before build_folder_hierarchy returned.
NoFolderResp == [token_id |-> NoId, code |-> 0]
NotBuilt == [built |-> FALSE]

\* What the adapters can answer.
TranscriberTexts == {"X"}
SummarizerTexts == {"Y"}
ErrorTexts == {"boom"}

VARIABLES
    DEBUG_MODE,         \* the process-wide flag (line 37)
    tasks_status,       \* the registry: id -> status dict (line 58)
    req,                \* per request: how far transcribe_audio and its response got
    task_id,            \* per request: the id generated for it, NoId before
    temp_file,          \* per request: the temporary audio file
    pc,                 \* per request: position of process_audio_wrapper / process_audio_task
    exc,                \* per request: the exception travelling to the outer except
    transcript,         \* per request: the future of run_in_executor(run_whisper)
    completion,         \* per request: the future of run_in_executor(run_gpt)
    raw_text,           \* per request: local raw_text
    formatted_minutes,  \* per request: local formatted_minutes
    progress_task,      \* per request: the task update_progress_during_api_call
    gpt_progress_task,  \* per request: the task update_gpt_progress
    pollResp,           \* the response of get_task_status, when the last step was a poll
    export_content,     \* content id -> the content kept for the export (line 138)
    oauth_tokens,       \* content id -> the token stored for it (line 137)
    content_ids,        \* the content ids start_oauth has generated
    documents,          \* the documents created in Google Drive
    cb_pc,              \* per callback request: position of oauth_callback
    cb_content_id,      \* per callback request: content_id taken from its state
    folderResp,         \* the response of get_folder_list, when the last step was one
    folder_list,        \* the argument of build_folder_hierarchy
    hierarchy           \* what build_folder_hierarchy returned for it

\* The state of the Google Drive export and of the folder list.
driveVars == <<export_content, oauth_tokens, content_ids, documents, cb_pc, cb_content_id,
               folderResp, folder_list, hierarchy>>

vars == <<DEBUG_MODE, tasks_status, req, task_id, temp_file, pc, exc, transcript,
          completion, raw_text, formatted_minutes, progress_task, gpt_progress_task,
          pollResp, driveVars>>

\* ------------------------------------------------------------ status dicts

\* A status dict that counts progress 100 as completed.
Status_completed_at_100(step, progress, message) ==
    [step |-> step, progress |-> progress, message |-> message,
     completed |-> (progress = 100)]

\* A non-terminal status dict, as built before every update_task_status call.
Status(step, progress, message) ==
    [step |-> step, progress |-> progress, message |-> message, completed |-> FALSE]

\* Messages are the text parts of the (possibly formatted) message string.
initial_status == Status(1, 0, <<"starting">>)

\* The final status with the two texts in each other's place.
completed_status_swapped(raw, minutes) ==
    [step |-> 4, progress |-> 100, message |-> <<"processing completed">>,
     completed |-> TRUE, result |-> [raw_text |-> minutes, minutes |-> raw]]

completed_status(raw, minutes) ==
    [step |-> 4, progress |-> 100, message |-> <<"processing completed">>,
     completed |-> TRUE, result |-> [raw_text |-> raw, minutes |-> minutes]]

\* The error status without its error key.
error_status_without_key(e) ==
    [message |-> <<"error occurred: ", e>>, completed |-> TRUE]

\* The error status with a fixed message.
error_status_fixed_message(e) ==
    [error |-> TRUE, message |-> <<"error occurred">>, completed |-> TRUE]

\* f"エラーが発生しました: {str(e)}"
error_status(e) ==
    [error |-> TRUE, message |-> <<"error occurred: ", e>>, completed |-> TRUE]

\* f"処理中にエラーが発生しました: {str(wrapper_error)}"
wrapper_error_status(e) ==
    [error |-> TRUE, message |-> <<"error while processing: ", e>>, completed |-> TRUE]

\* tasks_status.setdefault(task_id, {}).update(status): the keys of the new
\* dict written into the stored one, those it does not name left as they were.
update_task_status_merging(t, id, status) ==
    [i \in DOMAIN t \cup {id} |->
        IF i # id THEN t[i]
        ELSE IF id \in DOMAIN t THEN status @@ t[id] ELSE status]

\* tasks_status[task_id] = status
update_task_status(t, id, status) ==
    [i \in (DOMAIN t) \cup {id} |-> IF i = id THEN status ELSE t[i]]

\* An id generator that can repeat itself.
uuid4_repeating(issued) == CHOOSE id \in Ids : TRUE

\* str(uuid.uuid4()): a value no earlier call returned.
uuid4(issued) == CHOOSE id \in Ids : id \notin issued

IssuedIds == {task_id[j] : j \in Jobs} \ {NoId}

\* ---------------------------------------------------------------- futures

NotStarted == [st |-> "none"]
Running == [st |-> "running"]
Returned(v) == [st |-> "ok", val |-> v]
Raised(e) == [st |-> "err", val |-> e]

\* The object client.audio.transcriptions.create returns.
TranscriptObj(x) == [text |-> x]

\* The object client.chat.completions.create returns.
CompletionObj(y) == [choices |-> <<[message |-> [content |-> y]]>>]

NoTask == [state |-> "none", i |-> 0]

\* asyncio.create_task(...): scheduled, nothing written yet.
create_task == [state |-> "live", i |-> 0]

\* A task that returned or was cancelled: task.done() is True, and the
\* coroutine is gone, its loop counter with it.
Done == [state |-> "done", i |-> 0]

\* The cancellation left out: the task stays as it is.
cancel_forgotten(task) == task

\* if not task.done(): task.cancel()
cancel_if_not_done(task) ==
    IF task.state = "live" THEN Done ELSE task

\* ------------------------------------------------- process_audio_task: text

\* The writes of process_audio_task that are plain statements: at position p
\* the status dict written there and the position that follows.  A position is
\* named after the step and progress written at it.
PlainPcs ==
    {"w1_5", "w1_15", "w1_40", "w1_60", "w1_80", "w2_5", "w2_10", "w2_15",
     "w2_95", "w2_100", "w3_5", "w3_15", "w3_20", "w3_75"}

\* The order of the writes with the test of DEBUG_MODE made for the recognition
\* only: the minutes are always asked of GPT-4.
PlainNext_debug_recognition_only(p, debug) ==
    CASE p = "w1_5"   -> "w1_15"
      [] p = "w1_15"  -> "w1_25"
      [] p = "w1_40"  -> "w1_60"
      [] p = "w1_60"  -> "w1_80"
      [] p = "w1_80"  -> "w2_5"
      [] p = "w2_5"   -> "w2_10"
      [] p = "w2_10"  -> "w2_15"
      [] p = "w2_15"  -> IF debug THEN "d2_20" ELSE "call_whisper"
      [] p = "w2_95"  -> "w2_100"
      [] p = "w2_100" -> "w3_5"
      [] p = "w3_5"   -> "w3_15"
      [] p = "w3_15"  -> "w3_20"
      [] p = "w3_20"  -> "w3_75"
      [] p = "w3_75"  -> "call_gpt"

PlainStatus(p) ==
    CASE p = "w1_5"   -> Status(1, 5, <<"preparing audio file">>)
      [] p = "w1_15"  -> Status(1, 15, <<"initialising audio processing">>)
      [] p = "w1_40"  -> Status(1, 40, <<"preparing audio processor">>)
      [] p = "w1_60"  -> Status(1, 60, <<"analysing audio file">>)
      [] p = "w1_80"  -> Status(1, 80, <<"audio file processed">>)
      [] p = "w2_5"   -> Status(2, 5, <<"preparing recognition model ", "model">>)
      [] p = "w2_10"  -> Status(2, 10, <<"starting recognition">>)
      [] p = "w2_15"  -> Status(2, 15, <<"model", " is recognising">>)
      [] p = "w2_95"  -> Status(2, 95, <<"recognition finished ", "len(raw_text)">>)
      [] p = "w2_100" -> Status(2, 100, <<"speech to text finished">>)
      [] p = "w3_5"   -> Status(3, 5, <<"preparing minutes">>)
      [] p = "w3_15"  -> Status(3, 15, <<"preparing minutes format">>)
      [] p = "w3_20"  -> Status(3, 20, <<"generating minutes">>)
      [] p = "w3_75"  -> Status(3, 75, <<"creating minutes with GPT-4">>)

PlainNext(p, debug) ==
    CASE p = "w1_5"   -> "w1_15"
      [] p = "w1_15"  -> "w1_25"
      [] p = "w1_40"  -> "w1_60"
      [] p = "w1_60"  -> "w1_80"
      [] p = "w1_80"  -> "w2_5"
      [] p = "w2_5"   -> "w2_10"
      [] p = "w2_10"  -> "w2_15"
      [] p = "w2_15"  -> IF debug THEN "d2_20" ELSE "call_whisper"
      [] p = "w2_95"  -> "w2_100"
      [] p = "w2_100" -> "w3_5"
      [] p = "w3_5"   -> "w3_15"
      [] p = "w3_15"  -> "w3_20"
      [] p = "w3_20"  -> "w3_75"
      [] p = "w3_75"  -> IF debug THEN "d3_25" ELSE "call_gpt"

\* The positions the coroutine reaches through an await: there it is suspended
\* and the other tasks of its event loop may run.
AwaitPcs ==
    {"w1_15", "w1_25", "w1_40", "w1_60", "w1_80", "w2_5", "w2_10", "w2_15",
     "await_whisper", "w2_100", "w3_5", "w3_15", "w3_20", "await_gpt",
     "d2_30", "d2_45", "d2_60", "d2_75", "d2_90",
     "d3_35", "d3_45", "d3_55", "d3_65", "d3_75", "d3_85", "d3_95"}

\* The values of the Transcriber heartbeat with 100 as the last one.
progress_values_to_100 == <<20, 30, 45, 60, 75, 100>>

\* Heartbeat of the transcription call (update_progress_during_api_call).
progress_values == <<20, 30, 45, 60, 75, 90>>

messages ==
    <<"sending audio", "analysing audio", "recognising", "converting to text",
      "formatting result", "final processing">>

\* Heartbeat of the summarisation call (update_gpt_progress), and the simulated
\* progress of the debug mode, which uses the same two lists.
progress_steps == <<25, 35, 45, 55, 65, 75, 85, 95>>

progress_messages ==
    <<"creating structure", "analysing content", "extracting topics",
      "arranging participants", "extracting decisions", "formatting minutes",
      "adjusting wording", "final adjustments">>

\* Simulated recognition progress of the debug mode.
debug_progress_steps == <<20, 30, 45, 60, 75, 90>>

debug_progress_messages ==
    <<"analysing audio data", "recognising patterns", "converting with language model",
      "recognising", "analysing context", "fixing result">>

SampleText == "sample transcript"

SampleMinutes == "sample minutes"

\* The positions of the two debug loops, one per iteration.
Debug2Pcs == <<"d2_20", "d2_30", "d2_45", "d2_60", "d2_75", "d2_90">>

Debug3Pcs == <<"d3_25", "d3_35", "d3_45", "d3_55", "d3_65", "d3_75", "d3_85", "d3_95">>

Range(seq) == {seq[i] : i \in 1..Len(seq)}

IndexOf(seq, x) == CHOOSE i \in 1..Len(seq) : seq[i] = x

\* ------------------------------------------------------------------- Init

\* No poll was answered in the last step.
NoPoll == [task_id |-> NoId, response |-> [code |-> 0]]

\* Module load: oauth_tokens = {} and export_content = {}; no callback yet.
InitDrive ==
    /\ export_content = << >>
    /\ oauth_tokens = << >>
    /\ content_ids = {}
    /\ documents = {}
    /\ cb_pc = [c \in Callbacks |-> "none"]
    /\ cb_content_id = [c \in Callbacks |-> NoId]
    /\ folderResp = NoFolderResp

\* Module load, as far as the transcription pipeline goes.
InitPipeline ==
    /\ DEBUG_MODE \in BOOLEAN
    /\ tasks_status = << >>
    /\ req = [j \in Jobs |-> "none"]
    /\ task_id = [j \in Jobs |-> NoId]
    /\ temp_file = [j \in Jobs |-> "none"]
    /\ pc = [j \in Jobs |-> "none"]
    /\ exc = [j \in Jobs |-> "none"]
    /\ transcript = [j \in Jobs |-> NotStarted]
    /\ completion = [j \in Jobs |-> NotStarted]
    /\ raw_text = [j \in Jobs |-> ""]
    /\ formatted_minutes = [j \in Jobs |-> ""]
    /\ progress_task = [j \in Jobs |-> NoTask]
    /\ gpt_progress_task = [j \in Jobs |-> NoTask]
    /\ pollResp = NoPoll

Init ==
    /\ InitPipeline
    /\ InitDrive
    /\ folder_list = << >>
    /\ hierarchy = NotBuilt

\* Requests are numbered in the order the server handles them.
NextRequest(j) == req[j] = "none" /\ \A i \in Jobs : i < j => req[i] # "none"

\* What a step of the pipeline leaves alone.
UnchangedRequest == UNCHANGED <<DEBUG_MODE, req, task_id, driveVars>>
UnchangedCalls == UNCHANGED <<transcript, completion>>
UnchangedTasks == UNCHANGED <<progress_task, gpt_progress_task>>
UnchangedLocals == UNCHANGED <<raw_text, formatted_minutes>>

\* ------------------------------------------------------- POST /transcribe/

\* transcribe_audio, the whole handler, for the three ways it can go:
\*   "bad_ext"    the extension is not in allowed_extensions: HTTP 400 before
\*                an id is generated;
\*   "store_fail" the upload is empty or cannot be stored: the ValueError
\*                becomes HTTP 500, after the initial status was written and
\*                the temporary file was created (delete=False);
\*   "ok"         the wrapper is added to background_tasks and the id returned.
transcribe_audio(j, outcome) ==
    /\ NextRequest(j)
    /\ pollResp' = NoPoll
    /\ UNCHANGED <<DEBUG_MODE, exc, transcript, completion, raw_text,
                   formatted_minutes, progress_task, gpt_progress_task, driveVars>>
    /\ IF outcome = "bad_ext"
       THEN /\ req' = [req EXCEPT ![j] = "http400"]
            /\ UNCHANGED <<tasks_status, task_id, temp_file, pc>>
       ELSE LET id == uuid4(IssuedIds) IN
            /\ task_id' = [task_id EXCEPT ![j] = id]
            /\ tasks_status' = update_task_status(tasks_status, id, initial_status)
            /\ temp_file' = [temp_file EXCEPT ![j] = "present"]
            /\ IF outcome = "store_fail"
               THEN /\ req' = [req EXCEPT ![j] = "http500"]
                    /\ UNCHANGED pc
               ELSE /\ req' = [req EXCEPT ![j] = "returned"]
                    /\ pc' = [pc EXCEPT ![j] = "scheduled"]

\* The server sends the handler's response {"task_id": task_id} to the client.
SendResponse(j) ==
    /\ req[j] = "returned"
    /\ req' = [req EXCEPT ![j] = "responded"]
    /\ pollResp' = NoPoll
    /\ UNCHANGED <<DEBUG_MODE, tasks_status, task_id, temp_file, pc, exc, transcript,
                   completion, raw_text, formatted_minutes, progress_task,
                   gpt_progress_task, driveVars>>

\* The wrapper started by the handler itself, not through background_tasks.
BackgroundStartsInHandler(j) == req[j] \in {"returned", "responded"}

\* background_tasks.add_task(process_audio_wrapper): the server runs the tasks
\* of a response after it has sent the response.
BackgroundMayStart(j) == req[j] = "responded"

\* ---------------------------------------------------- process_audio_wrapper

\* The worker thread enters process_audio_wrapper.  asyncio.run either starts
\* process_audio_task on a new event loop, or fails to set the loop up and the
\* wrapper's except writes its error status.  (process_audio_task itself
\* catches every Exception, so nothing it raises reaches the wrapper.)
process_audio_wrapper(j, e) ==
    /\ pc[j] = "scheduled"
    /\ BackgroundMayStart(j)
    /\ pollResp' = NoPoll
    /\ IF e = "none"
       THEN /\ pc' = [pc EXCEPT ![j] = "w1_5"]
            /\ UNCHANGED tasks_status
       ELSE /\ pc' = [pc EXCEPT ![j] = "done"]
            /\ tasks_status' =
                   update_task_status(tasks_status, task_id[j], wrapper_error_status(e))
    /\ UNCHANGED <<temp_file, exc>>
    /\ UnchangedRequest /\ UnchangedCalls /\ UnchangedTasks /\ UnchangedLocals

\* ------------------------------------------------------- process_audio_task

\* One plain write: status = {...}; update_task_status(task_id, status).
PlainWrite(j) ==
    /\ pc[j] \in PlainPcs
    /\ tasks_status' = update_task_status(tasks_status, task_id[j], PlainStatus(pc[j]))
    /\ pc' = [pc EXCEPT ![j] = PlainNext(pc[j], DEBUG_MODE)]
    /\ pollResp' = NoPoll
    /\ UNCHANGED <<temp_file, exc>>
    /\ UnchangedRequest /\ UnchangedCalls /\ UnchangedTasks /\ UnchangedLocals

\* os.path.getsize(file_path), then the write of step 1, progress 25.  When
\* getsize raises, control goes to the outer except.
FileInfo(j, e) ==
    /\ pc[j] = "w1_25"
    /\ pollResp' = NoPoll
    /\ IF e = "none"
       THEN /\ tasks_status' =
                   update_task_status(tasks_status, task_id[j],
                       Status(1, 25, <<"file info: ", "file_mime", "file_size">>))
            /\ pc' = [pc EXCEPT ![j] = "w1_40"]
            /\ UNCHANGED exc
       ELSE /\ exc' = [exc EXCEPT ![j] = e]
            /\ pc' = [pc EXCEPT ![j] = "except"]
            /\ UNCHANGED tasks_status
    /\ UNCHANGED temp_file
    /\ UnchangedRequest /\ UnchangedCalls /\ UnchangedTasks /\ UnchangedLocals

\* DEBUG_MODE, recognition: one iteration of the simulated progress loop; after
\* the last one raw_text is the sample text.
DebugRecognition(j) ==
    /\ pc[j] \in Range(Debug2Pcs)
    /\ pollResp' = NoPoll
    /\ LET i == IndexOf(Debug2Pcs, pc[j]) IN
       /\ tasks_status' =
              update_task_status(tasks_status, task_id[j],
                  Status(2, debug_progress_steps[i], <<debug_progress_messages[i]>>))
       /\ IF i < Len(Debug2Pcs)
          THEN /\ pc' = [pc EXCEPT ![j] = Debug2Pcs[i + 1]]
               /\ UNCHANGED raw_text
          ELSE /\ pc' = [pc EXCEPT ![j] = "w2_95"]
               /\ raw_text' = [raw_text EXCEPT ![j] = SampleText]
    /\ UNCHANGED <<temp_file, exc, formatted_minutes>>
    /\ UnchangedRequest /\ UnchangedCalls /\ UnchangedTasks

\* DEBUG_MODE, minutes: one iteration of the simulated progress loop; after the
\* last one formatted_minutes is the sample minutes.
DebugMinutes(j) ==
    /\ pc[j] \in Range(Debug3Pcs)
    /\ pollResp' = NoPoll
    /\ LET i == IndexOf(Debug3Pcs, pc[j]) IN
       /\ tasks_status' =
              update_task_status(tasks_status, task_id[j],
                  Status(3, progress_steps[i], <<progress_messages[i]>>))
       /\ IF i < Len(Debug3Pcs)
          THEN /\ pc' = [pc EXCEPT ![j] = Debug3Pcs[i + 1]]
               /\ UNCHANGED formatted_minutes
          ELSE /\ pc' = [pc EXCEPT ![j] = "w4"]
               /\ formatted_minutes' = [formatted_minutes EXCEPT ![j] = SampleMinutes]
    /\ UNCHANGED <<temp_file, exc, raw_text>>
    /\ UnchangedRequest /\ UnchangedCalls /\ UnchangedTasks

\* progress_task = asyncio.create_task(update_progress_during_api_call()) and
\* loop.run_in_executor(None, run_whisper): the coroutine now awaits the call.
CallWhisper(j) ==
    /\ pc[j] = "call_whisper"
    /\ progress_task' = [progress_task EXCEPT ![j] = create_task]
    /\ transcript' = [transcript EXCEPT ![j] = Running]
    /\ pc' = [pc EXCEPT ![j] = "await_whisper"]
    /\ pollResp' = NoPoll
    /\ UNCHANGED <<tasks_status, temp_file, exc, completion, gpt_progress_task>>
    /\ UnchangedRequest /\ UnchangedLocals

\* run_whisper on its executor thread: the Transcriber answers with a text or
\* raises.  The call is made without a timeout: it may also never answer, and
\* then this step never happens.
run_whisper(j, r) ==
    /\ transcript[j].st = "running"
    /\ transcript' = [transcript EXCEPT ![j] = r]
    /\ pollResp' = NoPoll
    /\ UNCHANGED <<tasks_status, temp_file, pc, exc, completion>>
    /\ UnchangedRequest /\ UnchangedTasks /\ UnchangedLocals

\* A task of the pipeline's event loop runs only while the coroutine is
\* suspended in an await.
LoopIsFree(j) == pc[j] \in AwaitPcs

\* update_progress_during_api_call: one iteration of its loop.
update_progress_during_api_call(j) ==
    /\ progress_task[j].state = "live"
    /\ progress_task[j].i < Len(progress_values)
    /\ LoopIsFree(j)
    /\ LET i == progress_task[j].i + 1 IN
       /\ tasks_status' =
              update_task_status(tasks_status, task_id[j],
                  Status(2, progress_values[i], <<messages[i]>>))
       /\ progress_task' = [progress_task EXCEPT ![j].i = i]
    /\ pollResp' = NoPoll
    /\ UNCHANGED <<temp_file, pc, exc, gpt_progress_task>>
    /\ UnchangedRequest /\ UnchangedCalls /\ UnchangedLocals

\* update_progress_during_api_call returns after its last sleep.
progress_task_ends(j) ==
    /\ progress_task[j].state = "live"
    /\ progress_task[j].i = Len(progress_values)
    /\ LoopIsFree(j)
    /\ progress_task' = [progress_task EXCEPT ![j] = Done]
    /\ pollResp' = NoPoll
    /\ UNCHANGED <<tasks_status, temp_file, pc, exc, gpt_progress_task>>
    /\ UnchangedRequest /\ UnchangedCalls /\ UnchangedLocals

\* The call made again after its failure, instead of raise e.
call_again(call) == call

\* except Exception as e: ... raise e -- the exception of a call goes to the
\* outer except; the call is not made again.
raise_e(call) == "except"

\* The loop resumes a coroutine awaiting a future after the tasks that were
\* ready before the future was: the heartbeat task created just before the call
\* has run its first iteration by then.
Resumable(future, task) ==
    /\ future.st \in {"ok", "err"}
    /\ task.state = "done" \/ task.i >= 1

\* transcript = await loop.run_in_executor(None, run_whisper) resumes.  With a
\* result: the write of step 2, progress 49.  With an exception: the except
\* clause stops the heartbeat and raises it again, to the outer except.
WhisperResumes(j) ==
    /\ pc[j] = "await_whisper"
    /\ Resumable(transcript[j], progress_task[j])
    /\ pollResp' = NoPoll
    /\ IF transcript[j].st = "ok"
       THEN /\ tasks_status' =
                   update_task_status(tasks_status, task_id[j],
                       Status(2, 49, <<"recognition done, processing result">>))
            /\ pc' = [pc EXCEPT ![j] = "whisper_done"]
            /\ UNCHANGED <<exc, progress_task>>
       ELSE /\ progress_task' =
                   [progress_task EXCEPT ![j] = cancel_if_not_done(progress_task[j])]
            /\ exc' = [exc EXCEPT ![j] = transcript[j].val]
            /\ pc' = [pc EXCEPT ![j] = raise_e("call_whisper")]
            /\ UNCHANGED tasks_status
    /\ UNCHANGED <<temp_file, gpt_progress_task>>
    /\ UnchangedRequest /\ UnchangedCalls /\ UnchangedLocals

\* raw_text = transcript.text; if not progress_task.done(): progress_task.cancel()
WhisperDone(j) ==
    /\ pc[j] = "whisper_done"
    /\ raw_text' = [raw_text EXCEPT ![j] = transcript[j].val.text]
    /\ progress_task' = [progress_task EXCEPT ![j] = cancel_if_not_done(progress_task[j])]
    /\ pc' = [pc EXCEPT ![j] = "w2_95"]
    /\ pollResp' = NoPoll
    /\ UNCHANGED <<tasks_status, temp_file, exc, formatted_minutes, gpt_progress_task>>
    /\ UnchangedRequest /\ UnchangedCalls

\* The messages of the Summarizer call with the transcript left out.
run_gpt_messages_without_text(text) ==
    <<[role |-> "system", content |-> "system_prompt"],
      [role |-> "user", content |-> ""]>>

\* messages=[{"role": "system", "content": system_prompt},
\*           {"role": "user", "content": raw_text}] in run_gpt.
run_gpt_messages(text) ==
    <<[role |-> "system", content |-> "system_prompt"],
      [role |-> "user", content |-> text]>>

\* The pending future of a call made with these arguments.
Calling(args) == [st |-> "running", args |-> args]

\* gpt_progress_task = asyncio.create_task(update_gpt_progress()) and
\* loop.run_in_executor(None, run_gpt): the coroutine now awaits the call.
CallGpt(j) ==
    /\ pc[j] = "call_gpt"
    /\ gpt_progress_task' = [gpt_progress_task EXCEPT ![j] = create_task]
    /\ completion' = [completion EXCEPT ![j] = Calling(run_gpt_messages(raw_text[j]))]
    /\ pc' = [pc EXCEPT ![j] = "await_gpt"]
    /\ pollResp' = NoPoll
    /\ UNCHANGED <<tasks_status, temp_file, exc, transcript, progress_task>>
    /\ UnchangedRequest /\ UnchangedLocals

\* run_gpt on its executor thread: the Summarizer answers with a text or raises,
\* or never answers (no timeout).
run_gpt(j, r) ==
    /\ completion[j].st = "running"
    /\ completion' = [completion EXCEPT ![j] = r]
    /\ pollResp' = NoPoll
    /\ UNCHANGED <<tasks_status, temp_file, pc, exc, transcript>>
    /\ UnchangedRequest /\ UnchangedTasks /\ UnchangedLocals

\* update_gpt_progress: one iteration of its loop.
update_gpt_progress(j) ==
    /\ gpt_progress_task[j].state = "live"
    /\ gpt_progress_task[j].i < Len(progress_steps)
    /\ LoopIsFree(j)
    /\ LET i == gpt_progress_task[j].i + 1 IN
       /\ tasks_status' =
              update_task_status(tasks_status, task_id[j],
                  Status(3, progress_steps[i], <<progress_messages[i]>>))
       /\ gpt_progress_task' = [gpt_progress_task EXCEPT ![j].i = i]
    /\ pollResp' = NoPoll
    /\ UNCHANGED <<temp_file, pc, exc, progress_task>>
    /\ UnchangedRequest /\ UnchangedCalls /\ UnchangedLocals

\* update_gpt_progress returns after its last sleep.
gpt_progress_task_ends(j) ==
    /\ gpt_progress_task[j].state = "live"
    /\ gpt_progress_task[j].i = Len(progress_steps)
    /\ LoopIsFree(j)
    /\ gpt_progress_task' = [gpt_progress_task EXCEPT ![j] = Done]
    /\ pollResp' = NoPoll
    /\ UNCHANGED <<tasks_status, temp_file, pc, exc, progress_task>>
    /\ UnchangedRequest /\ UnchangedCalls /\ UnchangedLocals

\* completion = await loop.run_in_executor(None, run_gpt) resumes.  With a
\* result: formatted_minutes is taken from it and the heartbeat stopped.  With
\* an exception: the heartbeat is stopped and the exception raised again.
GptResumes(j) ==
    /\ pc[j] = "await_gpt"
    /\ Resumable(completion[j], gpt_progress_task[j])
    /\ pollResp' = NoPoll
    /\ gpt_progress_task' =
           [gpt_progress_task EXCEPT ![j] = cancel_if_not_done(gpt_progress_task[j])]
    /\ IF completion[j].st = "ok"
       THEN /\ formatted_minutes' =
                   [formatted_minutes EXCEPT
                       ![j] = completion[j].val.choices[1].message.content]
            /\ pc' = [pc EXCEPT ![j] = "w4"]
            /\ UNCHANGED exc
       ELSE /\ exc' = [exc EXCEPT ![j] = completion[j].val]
            /\ pc' = [pc EXCEPT ![j] = raise_e("call_gpt")]
            /\ UNCHANGED formatted_minutes
    /\ UNCHANGED <<tasks_status, temp_file, raw_text, progress_task>>
    /\ UnchangedRequest /\ UnchangedCalls

\* The coroutine returning right after the final status, the deletion left out.
return_after_final_status == "done"

\* What follows the final status: the try around os.unlink(file_path).
after_final_status == "unlink"

\* The final status: step 4 with the result.
WriteCompleted(j) ==
    /\ pc[j] = "w4"
    /\ tasks_status' =
           update_task_status(tasks_status, task_id[j],
               completed_status(raw_text[j], formatted_minutes[j]))
    /\ pc' = [pc EXCEPT ![j] = after_final_status]
    /\ pollResp' = NoPoll
    /\ UNCHANGED <<temp_file, exc>>
    /\ UnchangedRequest /\ UnchangedCalls /\ UnchangedTasks /\ UnchangedLocals

\* The deletion outside its own try: its failure reaches the outer except.
unlink_failed_outer_except(t, id, e) == update_task_status(t, id, error_status(e))

\* except Exception as e around os.unlink: the error is logged, nothing else.
unlink_failed(t, id, e) == t

\* os.unlink(file_path) in its own try.
Unlink(j, e) ==
    /\ pc[j] = "unlink"
    /\ pc' = [pc EXCEPT ![j] = "done"]
    /\ pollResp' = NoPoll
    /\ IF e = "none"
       THEN /\ temp_file' = [temp_file EXCEPT ![j] = "deleted"]
            /\ UNCHANGED tasks_status
       ELSE /\ tasks_status' = unlink_failed(tasks_status, task_id[j], e)
            /\ UNCHANGED temp_file
    /\ UNCHANGED exc
    /\ UnchangedRequest /\ UnchangedCalls /\ UnchangedTasks /\ UnchangedLocals

\* The outer except of process_audio_task: the error status is written and the
\* coroutine returns.
Except(j) ==
    /\ pc[j] = "except"
    /\ tasks_status' = update_task_status(tasks_status, task_id[j], error_status(exc[j]))
    /\ pc' = [pc EXCEPT ![j] = "done"]
    /\ pollResp' = NoPoll
    /\ UNCHANGED <<temp_file, exc>>
    /\ UnchangedRequest /\ UnchangedCalls /\ UnchangedTasks /\ UnchangedLocals

\* -------------------------------------------------- GET /task_status/{id}

\* A handler that lets the error of the job out as its own failure.
get_task_status_raising(t, id) ==
    IF id \notin DOMAIN t THEN [code |-> 404]
    ELSE IF "error" \in DOMAIN t[id] THEN [code |-> 500]
    ELSE [code |-> 200, body |-> t[id]]

\* get_task_status: 404 for an id not in tasks_status, else the stored dict (a
\* copy of it when it is completed and holds a result).
get_task_status(t, id) ==
    IF id \notin DOMAIN t
    THEN [code |-> 404]
    ELSE LET status_data == t[id] IN
         IF status_data.completed /\ "result" \in DOMAIN status_data
         THEN [code |-> 200, body |-> [k \in DOMAIN status_data |-> status_data[k]]]
         ELSE [code |-> 200, body |-> status_data]

\* The removal the comments of the handler speak of: an entry that is completed
\* with a result is deleted once it has been handed out.
tasks_status_after_delivery(t, id) ==
    IF id \in DOMAIN t /\ t[id].completed /\ "result" \in DOMAIN t[id]
    THEN [i \in DOMAIN t \ {id} |-> t[i]]
    ELSE t

\* tasks_status.pop(task_id) in place of tasks_status.get(task_id, {}).
tasks_status_after_pop(t, id) == [i \in DOMAIN t \ {id} |-> t[i]]

\* tasks_status after the handler: get_task_status reads it with "in" and
\* .get() only; the removal its comments speak of is not written.
tasks_status_after_get(t, id) == t

\* One GET /task_status/{id}: the request and its response.
Poll(id) ==
    /\ pollResp' = [task_id |-> id, response |-> get_task_status(tasks_status, id)]
    /\ tasks_status' = tasks_status_after_get(tasks_status, id)
    /\ UNCHANGED <<DEBUG_MODE, req, task_id, temp_file, pc, exc,
                   transcript, completion, raw_text, formatted_minutes,
                   progress_task, gpt_progress_task, driveVars>>

\* ------------------------------------------------------------------- Next

SubmitOutcomes == {"ok", "bad_ext", "store_fail"}

Failures == {"none"} \cup ErrorTexts

TranscriberAnswers ==
    {Returned(TranscriptObj(x)) : x \in TranscriberTexts} \cup {Raised(e) : e \in ErrorTexts}

SummarizerAnswers ==
    {Returned(CompletionObj(y)) : y \in SummarizerTexts} \cup {Raised(e) : e \in ErrorTexts}

JobStep(j) ==
    \/ \E o \in SubmitOutcomes : transcribe_audio(j, o)
    \/ SendResponse(j)
    \/ \E e \in Failures : process_audio_wrapper(j, e)
    \/ PlainWrite(j)
    \/ \E e \in Failures : FileInfo(j, e)
    \/ DebugRecognition(j)
    \/ DebugMinutes(j)
    \/ CallWhisper(j)
    \/ \E r \in TranscriberAnswers : run_whisper(j, r)
    \/ update_progress_during_api_call(j)
    \/ progress_task_ends(j)
    \/ WhisperResumes(j)
    \/ WhisperDone(j)
    \/ CallGpt(j)
    \/ \E r \in SummarizerAnswers : run_gpt(j, r)
    \/ update_gpt_progress(j)
    \/ gpt_progress_task_ends(j)
    \/ GptResumes(j)
    \/ WriteCompleted(j)
    \/ \E e \in Failures : Unlink(j, e)
    \/ Except(j)

Next ==
    \/ \E j \in Jobs : JobStep(j)
    \/ \E id \in Ids : Poll(id)

Spec == Init /\ [][Next]_vars

\* One request, its pipeline, and the pollers of every id.
NextPoll ==
    \/ JobStep(1)
    \/ \E id \in Ids : Poll(id)

SpecPoll == Init /\ [][NextPoll]_vars

\* The pipelines alone, without pollers.
NextPipeline == \E j \in Jobs : JobStep(j)

SpecPipeline == Init /\ [][NextPipeline]_vars

\* The steps of the coroutine process_audio_task (and of the wrapper that runs
\* it), and the steps of its two heartbeat tasks.
CoroutineStep(j) ==
    \/ \E e \in Failures : process_audio_wrapper(j, e)
    \/ PlainWrite(j)
    \/ \E e \in Failures : FileInfo(j, e)
    \/ DebugRecognition(j)
    \/ DebugMinutes(j)
    \/ CallWhisper(j)
    \/ WhisperResumes(j)
    \/ WhisperDone(j)
    \/ CallGpt(j)
    \/ GptResumes(j)
    \/ WriteCompleted(j)
    \/ \E e \in Failures : Unlink(j, e)
    \/ Except(j)

HeartbeatStep(j) ==
    \/ update_progress_during_api_call(j)
    \/ progress_task_ends(j)
    \/ update_gpt_progress(j)
    \/ gpt_progress_task_ends(j)

\* The worker thread and its event loop keep running what is ready to run.  No
\* fairness for the adapters: a call may never answer.
FairSpec ==
    /\ SpecPipeline
    /\ \A j \in Jobs : WF_vars(CoroutineStep(j)) /\ WF_vars(HeartbeatStep(j))

\* The steps of the executor threads that run the two adapter calls.
AdapterStep(j) ==
    \/ \E r \in TranscriberAnswers : run_whisper(j, r)
    \/ \E r \in SummarizerAnswers : run_gpt(j, r)

\* FairSpec with a server that sends every response and adapters that always
\* answer, with a result or an exception.
FairSpecAnswering ==
    /\ FairSpec
    /\ \A j \in Jobs : WF_vars(SendResponse(j)) /\ WF_vars(AdapterStep(j))

\* ------------------------------------------------------ GET /oauth/google

\* What a step of the Drive export leaves alone.
UnchangedPipeline ==
    UNCHANGED <<DEBUG_MODE, tasks_status, req, task_id, temp_file, pc, exc, transcript,
                completion, raw_text, formatted_minutes, progress_task,
                gpt_progress_task, pollResp>>
UnchangedFolders == UNCHANGED <<folder_list, hierarchy>>

\* secrets.token_urlsafe(16): a value no earlier call returned.
token_urlsafe(used) == CHOOSE id \in ContentIds : id \notin used

\* d.get(key, default)
dict_get(d, key, default) == IF key \in DOMAIN d THEN d[key] ELSE default

\* start_oauth, the whole handler, for the three kinds of request:
\*   "no_content"   no content and not folders_only: the error page, nothing kept;
\*   "export"       the content is kept under a new content_id and the browser
\*                  is sent to Google with state = state:content_id;
\*   "folders_only" the same with the dummy content "folder_list_only".
start_oauth(kind) ==
    /\ Cardinality(content_ids) < MaxContents
    /\ LET content_id == token_urlsafe(content_ids) IN
       /\ content_ids' = content_ids \cup {content_id}
       /\ IF kind = "no_content"
          THEN UNCHANGED export_content
          ELSE export_content' =
                   [i \in DOMAIN export_content \cup {content_id} |->
                       IF i = content_id
                       THEN [content |-> IF kind = "folders_only"
                                         THEN "folder_list_only" ELSE "minutes",
                             title |-> "title",
                             folder_id |-> "",
                             folders_only |-> (kind = "folders_only")]
                       ELSE export_content[i]]
    /\ folderResp' = NoFolderResp
    /\ UNCHANGED <<oauth_tokens, documents, cb_pc, cb_content_id>>
    /\ UnchangedPipeline /\ UnchangedFolders

\* ---------------------------------------------------- GET /oauth/callback

\* Callback requests are numbered in the order the server receives them.
NextCallback(c) == cb_pc[c] = "none" /\ \A b \in Callbacks : b < c => cb_pc[b] # "none"

\* oauth_callback up to its first await.  Without a code, with a state that is
\* not state:content_id, or with a content_id that is not in export_content,
\* the error page; otherwise the handler posts the code to the token endpoint
\* and awaits the answer.
oauth_callback(c, kind, content_id) ==
    /\ NextCallback(c)
    /\ IF kind = "ok" /\ content_id \in DOMAIN export_content
       THEN /\ cb_pc' = [cb_pc EXCEPT ![c] = "await_token"]
            /\ cb_content_id' = [cb_content_id EXCEPT ![c] = content_id]
       ELSE /\ cb_pc' = [cb_pc EXCEPT ![c] = "error_request"]
            /\ UNCHANGED cb_content_id
    /\ folderResp' = NoFolderResp
    /\ UNCHANGED <<export_content, oauth_tokens, content_ids, documents>>
    /\ UnchangedPipeline /\ UnchangedFolders

\* The document export_to_google_drive creates with files().create.
Document(c, content_id, content_data) ==
    [callback |-> c,
     content_id |-> content_id,
     title |-> dict_get(content_data, "title", "minutes"),
     content |-> dict_get(content_data, "content", "")]

\* oauth_callback from the answer of the token endpoint to its return; no await
\* lies in between, export_to_google_drive calling the Drive API synchronously.
\* An answer other than 200, or without access_token: the error page.
\* Otherwise the token is stored under content_id and the content read with
\* export_content.get(content_id, {}); with folders_only the success page; else
\* the export, which returns the url ("ok"), raises before the document exists
\* ("fail_before_create") or after it was created ("fail_after_create"); after
\* "ok", del export_content[content_id], whose KeyError gives the error page.
token_response(c, r, o) ==
    /\ cb_pc[c] = "await_token"
    /\ folderResp' = NoFolderResp
    /\ UNCHANGED <<content_ids, cb_content_id>>
    /\ UnchangedPipeline /\ UnchangedFolders
    /\ LET content_id == cb_content_id[c]
           content_data == IF content_id \in DOMAIN export_content
                           THEN export_content[content_id] ELSE << >>
       IN
       IF r.status_code # 200 \/ "access_token" \notin DOMAIN r.token_json
       THEN /\ cb_pc' = [cb_pc EXCEPT ![c] = "error_token"]
            /\ UNCHANGED <<export_content, oauth_tokens, documents>>
       ELSE /\ oauth_tokens' =
                   [i \in DOMAIN oauth_tokens \cup {content_id} |->
                       IF i = content_id
                       THEN [access_token |-> r.token_json.access_token]
                       ELSE oauth_tokens[i]]
            /\ IF dict_get(content_data, "folders_only", FALSE)
               THEN /\ cb_pc' = [cb_pc EXCEPT ![c] = "success_folders"]
                    /\ UNCHANGED <<export_content, documents>>
               ELSE /\ documents' =
                           IF o = "fail_before_create"
                           THEN documents
                           ELSE documents \cup {Document(c, content_id, content_data)}
                    /\ IF o = "ok" /\ content_id \in DOMAIN export_content
                       THEN /\ export_content' =
                                   [i \in DOMAIN export_content \ {content_id} |->
                                       export_content[i]]
                            /\ cb_pc' = [cb_pc EXCEPT ![c] = "success"]
                       ELSE /\ cb_pc' = [cb_pc EXCEPT ![c] = "error_export"]
                            /\ UNCHANGED export_content

\* ------------------------------------------- GET /drive-folders/{token_id}

\* get_folder_list: 401 for a token_id not in oauth_tokens, before anything is
\* asked of Drive; else get_drive_folders is called and its error gives 500.
get_folder_list(token_id, o) ==
    /\ folderResp' =
           IF token_id \notin DOMAIN oauth_tokens
           THEN [token_id |-> token_id, code |-> 401, drive_called |-> FALSE]
           ELSE [token_id |-> token_id,
                 code |-> IF o = "ok" THEN 200 ELSE 500,
                 drive_called |-> TRUE]
    /\ UNCHANGED <<export_content, oauth_tokens, content_ids, documents, cb_pc,
                   cb_content_id>>
    /\ UnchangedPipeline /\ UnchangedFolders

StartKinds == {"no_content", "export", "folders_only"}
CallbackKinds == {"no_code", "bad_state", "ok"}
TokenResponses ==
    {[status_code |-> 400, token_json |-> [error |-> "invalid_grant"]],
     [status_code |-> 200, token_json |-> [error |-> "invalid_grant"]],
     [status_code |-> 200, token_json |-> [access_token |-> "access_token"]]}
ExportOutcomes == {"ok", "fail_before_create", "fail_after_create"}
DriveOutcomes == {"ok", "error"}

NextOAuth ==
    \/ \E kind \in StartKinds : start_oauth(kind)
    \/ \E c \in Callbacks : \E kind \in CallbackKinds : \E content_id \in ContentIds :
           oauth_callback(c, kind, content_id)
    \/ \E c \in Callbacks : \E r \in TokenResponses : \E o \in ExportOutcomes :
           token_response(c, r, o)
    \/ \E token_id \in ContentIds : \E o \in DriveOutcomes : get_folder_list(token_id, o)

\* The Drive export alone: the browser, Google's answers, the folder requests.
SpecOAuth == Init /\ [][NextOAuth]_vars

\* -------------------------------------------------- build_folder_hierarchy

\* The folders get_folder_list hands over: dicts with id, name left out, type
\* and parentId; a shared drive has parentId None, a folder the id of a folder
\* of the list, of a folder that is not in the list, or None.
MaxFolders == 3
None == << >>
FolderIds == {<<"folder", n>> : n \in 1..MaxFolders}
ElsewhereId == <<"folder", 0>>
Folders ==
    {[id |-> id, type |-> "folder", parentId |-> p] :
        id \in FolderIds, p \in FolderIds \cup {None, ElsewhereId}}
    \cup {[id |-> id, type |-> "shared_drive", parentId |-> None] : id \in FolderIds}
FolderLists ==
    UNION {{l \in [1..n -> Folders] :
               \A i, k \in 1..n : l[i].id = l[k].id => i = k} : n \in 0..MaxFolders}

\* folder_copy = folder.copy(); folder_copy["children"] = children
with_children(folder, children) ==
    [key \in DOMAIN folder \cup {"children"} |->
        IF key = "children" THEN children ELSE folder[key]]

\* The loop of build_folder_hierarchy from the i-th folder on.  folder_map holds
\* the dicts of folder_list themselves, so a child is appended to the dict of
\* its parent in the list; root_folders holds copies made with children [].
RECURSIVE build_folder_hierarchy_loop(_, _, _, _)
build_folder_hierarchy_loop(list, i, folder_map, root_folders) ==
    IF i > Len(list) THEN [root_folders |-> root_folders, folder_map |-> folder_map]
    ELSE LET folder == folder_map[list[i].id]
             parent_id == folder.parentId
             folder_copy == with_children(folder, << >>)
         IN  IF parent_id = None \/ folder.type = "shared_drive"
             THEN build_folder_hierarchy_loop(list, i + 1, folder_map,
                                              Append(root_folders, folder_copy))
             ELSE IF parent_id \in DOMAIN folder_map
             THEN build_folder_hierarchy_loop(list, i + 1,
                      [folder_map EXCEPT ![parent_id] =
                          with_children(@, Append(dict_get(@, "children", << >>),
                                                  folder_copy))],
                      root_folders)
             ELSE build_folder_hierarchy_loop(list, i + 1, folder_map, root_folders)

\* folder_map = {folder["id"]: folder for folder in folder_list}; the ids
\* being distinct, folder_map[folder["id"]] is the dict folder itself.
folder_map_of(list) ==
    [id \in {list[i].id : i \in 1..Len(list)} |->
        list[CHOOSE i \in 1..Len(list) : list[i].id = id]]

\* The dicts of folder_list as the loop leaves them.
folder_list_after(list) ==
    LET folder_map == build_folder_hierarchy_loop(list, 1, folder_map_of(list), << >>).folder_map
    IN  [i \in 1..Len(list) |-> folder_map[list[i].id]]

build_folder_hierarchy(list) ==
    build_folder_hierarchy_loop(list, 1, folder_map_of(list), << >>).root_folders

\* The end of get_folder_list: the folders and the hierarchy built from them.
get_folder_list_hierarchy ==
    /\ ~hierarchy.built
    /\ hierarchy' = [built |-> TRUE,
                     folders |-> folder_list_after(folder_list),
                     hierarchy |-> build_folder_hierarchy(folder_list)]
    /\ UNCHANGED <<folder_list, export_content, oauth_tokens, content_ids, documents,
                   cb_pc, cb_content_id, folderResp>>
    /\ UnchangedPipeline

InitFolders ==
    /\ InitPipeline
    /\ InitDrive
    /\ folder_list \in FolderLists
    /\ hierarchy = NotBuilt

NextFolders == get_folder_list_hierarchy

\* build_folder_hierarchy applied to every list of folders with distinct ids.
SpecFolders == InitFolders /\ [][NextFolders]_vars

\* ------------------------------------------------- vocabulary of the claims

HasResult(s) == "result" \in DOMAIN s
HasError(s) == "error" \in DOMAIN s

\* The stage a status dict stands for: the initial snapshot is Queued, steps 1,
\* 2, 3, 4 are PreparingInput, Transcribing, Summarizing, Completed, and a
\* dict with the error key is Failed.
Stage(s) ==
    IF HasError(s) THEN "Failed"
    ELSE IF s.step = 4 THEN "Completed"
    ELSE IF s.step = 3 THEN "Summarizing"
    ELSE IF s.step = 2 THEN "Transcribing"
    ELSE IF s.progress = 0 THEN "Queued"
    ELSE "PreparingInput"

StageOrder == <<"Queued", "PreparingInput", "Transcribing", "Summarizing", "Completed">>

Terminal(s) == Stage(s) \in {"Completed", "Failed"}

\* The registry entry of request j.
Entry(j) == tasks_status[task_id[j]]

HasEntry(j) == task_id[j] \in DOMAIN tasks_status

\* Whether a message (its text parts) contains the text m.
Contains(message, m) == \E i \in 1..Len(message) : message[i] = m

\* ------------------------------------------------------------------ claims

\* C1 (as claimed): for every job, the progress values written to its registry
\* entry never decrease while the entry is not terminal, across stage
\* boundaries and heartbeat ticks.
C1_ProgressNeverDecreases ==
    [][\A id \in DOMAIN tasks_status :
          (~tasks_status[id].completed /\ "progress" \in DOMAIN tasks_status'[id])
              => tasks_status'[id].progress >= tasks_status[id].progress]_vars

\* C2: the stage of every registry entry starts as Queued and a write either
\* keeps it, moves it to the next stage of StageOrder, or, from a non-terminal
\* stage, moves it to Failed.
C2_StageOrder ==
    [][\A id \in DOMAIN tasks_status' :
          IF id \notin DOMAIN tasks_status
          THEN Stage(tasks_status'[id]) = "Queued"
          ELSE LET old == Stage(tasks_status[id])
                   new == Stage(tasks_status'[id])
               IN  \/ new = old
                   \/ \E k \in 1..(Len(StageOrder) - 1) :
                          old = StageOrder[k] /\ new = StageOrder[k + 1]
                   \/ ~Terminal(tasks_status[id]) /\ new = "Failed"]_vars

\* C2 witness: one job went through every stage to Completed while another
\* failed.
C2_Witness ==
    \E i, j \in Jobs :
        /\ HasEntry(i) /\ Stage(Entry(i)) = "Completed"
        /\ HasEntry(j) /\ Stage(Entry(j)) = "Failed"

\* C3: a status dict with completed = True holds exactly one of result and
\* error: step 4 holds a result with the two texts and no error, an error dict
\* holds no result; a dict with completed = False holds neither.
C3_ResultXorError ==
    \A id \in DOMAIN tasks_status :
        LET s == tasks_status[id] IN
        /\ s.completed => (HasResult(s) <=> ~HasError(s))
        /\ (s.completed /\ ~HasError(s)) =>
               /\ "step" \in DOMAIN s /\ s.step = 4
               /\ DOMAIN s.result = {"raw_text", "minutes"}
        /\ ~s.completed => (~HasResult(s) /\ ~HasError(s))

\* C3 witness: the registry holds a completed entry with a result and a
\* completed entry with an error.
C3_Witness ==
    /\ \E id \in DOMAIN tasks_status :
           tasks_status[id].completed /\ HasResult(tasks_status[id])
    /\ \E id \in DOMAIN tasks_status :
           tasks_status[id].completed /\ HasError(tasks_status[id])

\* C4: a registry entry that is Completed or Failed is never written again.
C4_TerminalImmutable ==
    [][\A id \in DOMAIN tasks_status :
          tasks_status[id].completed =>
              /\ id \in DOMAIN tasks_status'
              /\ tasks_status'[id] = tasks_status[id]]_vars

\* C4 witness: a job is over, Completed, after the deletion of its temporary
\* file failed.
C4_Witness ==
    \E j \in Jobs :
        /\ pc[j] = "done" /\ temp_file[j] = "present"
        /\ HasEntry(j) /\ Stage(Entry(j)) = "Completed"

TranscriberFailed(j, m) == transcript[j].st = "err" /\ transcript[j].val = m

FailedWith(j, m) ==
    /\ HasEntry(j) /\ Stage(Entry(j)) = "Failed"
    /\ Entry(j).completed
    /\ Contains(Entry(j).message, m)

\* C5: when the Transcriber call of a job has failed with m, the Summarizer is
\* not invoked and no heartbeat of it started, the entry is never in stage
\* Summarizing, and the entry eventually is Failed, completed, with a message
\* containing m.
C5_TranscriberFailure ==
    \A j \in Jobs : \A m \in ErrorTexts :
        /\ [](TranscriberFailed(j, m) =>
                 /\ completion[j].st = "none"
                 /\ gpt_progress_task[j].state = "none"
                 /\ Stage(Entry(j)) # "Summarizing")
        /\ (TranscriberFailed(j, m) ~> FailedWith(j, m))

\* C5 witness: a job whose Transcriber failed with "boom" is Failed with it.
C5_Witness ==
    \E j \in Jobs : TranscriberFailed(j, "boom") /\ FailedWith(j, "boom") /\ pc[j] = "done"

BothReturned(j, x, y) ==
    /\ transcript[j].st = "ok" /\ transcript[j].val = TranscriptObj(x)
    /\ completion[j].st = "ok" /\ completion[j].val = CompletionObj(y)

CompletedWith(j, x, y) ==
    /\ HasEntry(j)
    /\ Stage(Entry(j)) = "Completed"
    /\ Entry(j).progress = 100
    /\ Entry(j).completed
    /\ Entry(j).result = [raw_text |-> x, minutes |-> y]

\* C6: when the Transcriber of a job returned x and its Summarizer returned y,
\* the job ends, and once the final status is written the entry is Completed,
\* progress 100, completed, with result {raw_text: x, minutes: y}.
C6_ResultIsWhatAdaptersReturned ==
    \A j \in Jobs : \A x \in TranscriberTexts : \A y \in SummarizerTexts :
        /\ []((BothReturned(j, x, y) /\ pc[j] \in {"unlink", "done"})
                 => CompletedWith(j, x, y))
        /\ (BothReturned(j, x, y) ~> (pc[j] = "done" /\ CompletedWith(j, x, y)))

\* C6 witness: a job is over with the result {raw_text: "X", minutes: "Y"}.
C6_Witness ==
    \E j \in Jobs : BothReturned(j, "X", "Y") /\ pc[j] = "done" /\ CompletedWith(j, "X", "Y")

C8_Isolation ==
    /\ [](\A i, j \in Jobs :
             (i # j /\ task_id[i] # NoId /\ task_id[j] # NoId) => task_id[i] # task_id[j])
    /\ [][\A id \in DOMAIN tasks_status' :
             (id \notin DOMAIN tasks_status \/ tasks_status'[id] # tasks_status[id])
                 => \E j \in Jobs : task_id'[j] = id /\ JobStep(j)]_vars

\* C8 witness: two pipelines are under way at the same time, one awaiting its
\* Summarizer, the other its Transcriber.
C8_Witness ==
    \E i, j \in Jobs :
        /\ i # j /\ task_id[i] # task_id[j]
        /\ pc[i] = "await_gpt" /\ pc[j] = "await_whisper"
        /\ Stage(Entry(i)) = "Summarizing" /\ Stage(Entry(j)) = "Transcribing"

\* C9: at the moment the response with the id is sent, a poll of that id
\* answers 200 with step 1, progress 0, completed False: stage Queued.
C9_QueuedRightAfterSubmit ==
    [][\A j \in Jobs :
          SendResponse(j) =>
              LET r == get_task_status(tasks_status', task_id[j]) IN
              /\ r.code = 200
              /\ Stage(r.body) = "Queued"
              /\ r.body.progress = 0
              /\ r.body.completed = FALSE]_vars

\* C9 witness: the id of a request has been returned and its pipeline has not
\* started.
C9_Witness ==
    \E j \in Jobs : req[j] = "responded" /\ pc[j] = "scheduled" /\ HasEntry(j)

\* C10: as long as the response of a request is not sent, its pipeline has not
\* run a step and no adapter call was made for it.
C10_SubmitDoesNotWait ==
    \A j \in Jobs :
        req[j] # "responded" =>
            /\ pc[j] \in {"none", "scheduled"}
            /\ transcript[j].st = "none"
            /\ completion[j].st = "none"

\* C10 witness: the response of a request was sent and its Transcriber call
\* has not returned.
C10_Witness ==
    \E j \in Jobs : req[j] = "responded" /\ transcript[j].st = "running"

\* The pipeline of request j is over with an error status in its entry.
EndedFailed(j) == pc[j] = "done" /\ HasEntry(j) /\ HasError(Entry(j))

\* The pipeline of request j is over with a result in its entry.
EndedCompleted(j) == pc[j] = "done" /\ HasEntry(j) /\ HasResult(Entry(j))

\* C11 (as claimed): when the pipeline of a job is over and its entry is
\* Failed, the temporary file stored at submission has been deleted.
C11_FailedReleasesFile ==
    \A j \in Jobs : EndedFailed(j) => temp_file[j] = "deleted"

\* C12: once the entry of a job holds the result, its pipeline is at the
\* deletion of the temporary file or past it, and the step that ends a
\* Completed pipeline is os.unlink on that file (it deletes the file or fails),
\* taken with the result already written.
C12_DeletionAttemptedAfterCompleted ==
    /\ [](\A j \in Jobs :
             (HasEntry(j) /\ HasResult(Entry(j))) => pc[j] \in {"unlink", "done"})
    /\ [][\A j \in Jobs :
             (pc[j] # "done" /\ pc'[j] = "done" /\ HasResult(tasks_status'[task_id[j]])) =>
                 /\ pc[j] = "unlink"
                 /\ HasResult(Entry(j))
                 /\ temp_file[j] = "present"
                 /\ \E e \in Failures : Unlink(j, e)]_vars

\* C12 witness: a pipeline is over, Completed, and its file is deleted.
C12_Witness ==
    \E j \in Jobs : EndedCompleted(j) /\ temp_file[j] = "deleted"

\* The coroutine of request j has a step to take: it was started, is not over,
\* and is not waiting for an adapter that has not answered.
CanRun(j) ==
    /\ pc[j] \notin {"none", "done"}
    /\ BackgroundMayStart(j)
    /\ pc[j] = "await_whisper" => Resumable(transcript[j], progress_task[j])
    /\ pc[j] = "await_gpt" => Resumable(completion[j], gpt_progress_task[j])

\* C13: a pipeline that ended after an exception e left an entry with the
\* error key, completed, whose message contains e; the step that raises or
\* handles the exception of job i leaves the position, the entry, the futures
\* and the heartbeats of every other job as they were; and whatever has
\* failed, a coroutine that has a step to take can take it.
C13_ExceptionStaysInItsJob ==
    /\ [](\A j \in Jobs :
             (pc[j] = "done" /\ exc[j] # "none") =>
                 /\ HasEntry(j)
                 /\ HasError(Entry(j))
                 /\ Entry(j).completed
                 /\ Contains(Entry(j).message, exc[j]))
    /\ [](\A j \in Jobs : CanRun(j) => ENABLED CoroutineStep(j))
    /\ [][\A i \in Jobs :
             (exc'[i] # exc[i] \/ Except(i)) =>
                 \A j \in Jobs \ {i} :
                     /\ pc'[j] = pc[j]
                     /\ exc'[j] = exc[j]
                     /\ transcript'[j] = transcript[j]
                     /\ completion'[j] = completion[j]
                     /\ progress_task'[j] = progress_task[j]
                     /\ gpt_progress_task'[j] = gpt_progress_task[j]
                     /\ HasEntry(j) =>
                            /\ task_id[j] \in DOMAIN tasks_status'
                            /\ tasks_status'[task_id[j]] = Entry(j)]_vars

\* C13 witness: one pipeline ended Failed after an exception while another is
\* awaiting its Summarizer.
C13_Witness ==
    \E i, j \in Jobs :
        /\ i # j
        /\ EndedFailed(i) /\ exc[i] # "none"
        /\ pc[j] = "await_gpt" /\ HasEntry(j) /\ Stage(Entry(j)) = "Summarizing"

\* The id was returned by POST /transcribe/ to the client of some request.
ReturnedBySubmit(id) ==
    \E j \in Jobs : task_id[j] = id /\ req[j] \in {"returned", "responded"}

\* The last step was a poll.
Polled == pollResp.task_id \in Ids

\* C14 (as claimed): a poll of an id that no POST /transcribe/ has returned is
\* answered with 404.
C14_UnreturnedIdIsNotFound ==
    (Polled /\ ~ReturnedBySubmit(pollResp.task_id)) => pollResp.response.code = 404

\* C15: a poll is answered with 404 when the id is not in the registry and
\* otherwise with 200 and the stored status dict as its body, whether or not
\* that dict holds an error.
C15_PollFailsOnlyWithNotFound ==
    Polled =>
        IF pollResp.task_id \in DOMAIN tasks_status
        THEN /\ pollResp.response.code = 200
             /\ pollResp.response.body = tasks_status[pollResp.task_id]
        ELSE pollResp.response.code = 404

\* C15 witness: the poll of a Failed job was answered with 200 and a body that
\* holds the error.
C15_Witness ==
    /\ Polled
    /\ pollResp.response.code = 200
    /\ HasError(pollResp.response.body)
    /\ pollResp.response.body.completed

\* C16: a poll of an entry that is not completed leaves the registry as it
\* was, and when the step before it was a poll of the same id the two
\* responses are equal.
C16_PollChangesNothing ==
    [][\A id \in Ids :
          (Poll(id) /\ id \in DOMAIN tasks_status /\ ~tasks_status[id].completed) =>
              /\ tasks_status' = tasks_status
              /\ pollResp.task_id = id => pollResp'.response = pollResp.response]_vars

\* C16 witness: a job awaiting its Transcriber, heartbeat running, was polled.
C16_Witness ==
    /\ Polled
    /\ pollResp.response.code = 200
    /\ ~pollResp.response.body.completed
    /\ \E j \in Jobs :
           /\ task_id[j] = pollResp.task_id
           /\ pc[j] = "await_whisper"
           /\ progress_task[j].state = "live" /\ progress_task[j].i >= 1

\* C17 (as claimed): a job with an adapter call under way eventually has a
\* completed entry, whether or not the adapter ever answers.
C17_PendingCallEndsTheJob ==
    \A j \in Jobs :
        (transcript[j].st = "running" \/ completion[j].st = "running")
            ~> (HasEntry(j) /\ Entry(j).completed)

\* C18: for every job an adapter is invoked only with its future not yet
\* created, so at most once; the Transcriber is invoked before any Summarizer
\* call, the Summarizer only after the Transcriber returned a result, and a
\* future once created is never reset: after a failed call no call follows.
C18_NoRetry ==
    [][\A j \in Jobs :
          /\ (transcript[j].st # "running" /\ transcript'[j].st = "running") =>
                 (transcript[j].st = "none" /\ completion[j].st = "none")
          /\ (completion[j].st # "running" /\ completion'[j].st = "running") =>
                 (completion[j].st = "none" /\ transcript[j].st = "ok")
          /\ transcript[j].st # "none" => transcript'[j].st # "none"
          /\ completion[j].st # "none" => completion'[j].st # "none"
          /\ transcript[j].st \in {"ok", "err"} => transcript'[j] = transcript[j]
          /\ completion[j].st \in {"ok", "err"} => completion'[j] = completion[j]]_vars

\* C18 witness: a pipeline is over after its Summarizer call failed, and
\* another after its Transcriber call failed.
C18_Witness ==
    /\ \E j \in Jobs :
           EndedFailed(j) /\ transcript[j].st = "ok" /\ completion[j].st = "err"
    /\ \E j \in Jobs :
           EndedFailed(j) /\ transcript[j].st = "err" /\ completion[j].st = "none"

\* C19 (as claimed): after POST /transcribe/ answered a request with an error
\* (400 for the extension, 500 for an upload that is empty or cannot be
\* stored) the registry holds no entry under an id generated for it.
C19_RejectedSubmitLeavesNoEntry ==
    \A j \in Jobs : req[j] \in {"http400", "http500"} => ~HasEntry(j)

\* A step of the coroutine of job j that writes the entry of the job.
CoroutineWrites(j) ==
    /\ CoroutineStep(j)
    /\ HasEntry(j)
    /\ tasks_status'[task_id[j]] # Entry(j)

HeartbeatLive(j) ==
    progress_task[j].state = "live" \/ gpt_progress_task[j].state = "live"

WrittenSnapshots ==
    {initial_status}
        \cup {PlainStatus(p) : p \in PlainPcs}
        \cup {Status(1, 25, <<"file info: ", "file_mime", "file_size">>)}
        \cup {Status(2, 49, <<"recognition done, processing result">>)}
        \cup {Status(2, progress_values[i], <<messages[i]>>) :
                 i \in 1..Len(progress_values)}
        \cup {Status(2, debug_progress_steps[i], <<debug_progress_messages[i]>>) :
                 i \in 1..Len(debug_progress_steps)}
        \cup {Status(3, progress_steps[i], <<progress_messages[i]>>) :
                 i \in 1..Len(progress_steps)}
        \cup {completed_status(x, y) :
                 x \in TranscriberTexts \cup {SampleText},
                 y \in SummarizerTexts \cup {SampleMinutes}}
        \cup {error_status(e) : e \in ErrorTexts}
        \cup {wrapper_error_status(e) : e \in ErrorTexts}

\* C21: every registry entry is, whole, a status dict given to one call of
\* update_task_status, and the body of a 200 response to a poll is the entry
\* stored at that moment: one of those dicts, never a mixture of two.
C21_SnapshotsAreWhole ==
    /\ \A id \in DOMAIN tasks_status : tasks_status[id] \in WrittenSnapshots
    /\ (Polled /\ pollResp.response.code = 200) =>
           /\ pollResp.response.body \in WrittenSnapshots
           /\ pollResp.response.body = tasks_status[pollResp.task_id]

\* C21 witness: a poll made between two heartbeat writes, the Transcriber call
\* still under way, was answered with the second heartbeat status.
C21_Witness ==
    /\ Polled
    /\ pollResp.response.code = 200
    /\ pollResp.response.body = Status(2, progress_values[2], <<messages[2]>>)
    /\ \E j \in Jobs :
           /\ task_id[j] = pollResp.task_id
           /\ pc[j] = "await_whisper" /\ transcript[j].st = "running"
           /\ progress_task[j].state = "live"

\* C22 (as claimed): the body of every 200 response to a poll holds a stage
\* (the step key, or the error key of Failed), a message, the completed flag
\* and a progress that is an integer from 0 to 100.
C22_SnapshotShape ==
    (Polled /\ pollResp.response.code = 200) =>
        LET body == pollResp.response.body IN
        /\ "step" \in DOMAIN body \/ HasError(body)
        /\ "message" \in DOMAIN body
        /\ "completed" \in DOMAIN body /\ body.completed \in BOOLEAN
        /\ "progress" \in DOMAIN body /\ body.progress \in 0..100

\* A step of job j that writes its entry and keeps the step number of it.
WritesWithinStage(j) ==
    /\ HasEntry(j)
    /\ tasks_status'[task_id[j]] # Entry(j)
    /\ "step" \in DOMAIN Entry(j)
    /\ "step" \in DOMAIN tasks_status'[task_id[j]]
    /\ tasks_status'[task_id[j]].step = Entry(j).step

\* C23 (as claimed): a heartbeat write, and the write the coroutine makes on
\* resuming from the call, never lower the progress of the entry while the
\* step number stays the same.
C23_HeartbeatAndExecutorAdvance ==
    [][\A j \in Jobs :
          ((HeartbeatStep(j) \/ WhisperResumes(j) \/ GptResumes(j))
               /\ WritesWithinStage(j)) =>
              tasks_status'[task_id[j]].progress >= Entry(j).progress]_vars

SummarizerFailed(j, m) == completion[j].st = "err" /\ completion[j].val = m

\* C24: once the Summarizer call of a job has failed with m, the entry of the
\* job is in stage Summarizing or Failed and never holds a result; it
\* eventually is Failed, completed, with a message containing m, and that
\* status holds the error, the message and the completed flag only.
C24_SummarizerFailure ==
    \A j \in Jobs : \A m \in ErrorTexts :
        /\ [](SummarizerFailed(j, m) =>
                 /\ HasEntry(j)
                 /\ ~HasResult(Entry(j))
                 /\ Stage(Entry(j)) \in {"Summarizing", "Failed"}
                 /\ HasError(Entry(j)) =>
                        DOMAIN Entry(j) = {"error", "message", "completed"})
        /\ (SummarizerFailed(j, m) ~> (FailedWith(j, m) /\ pc[j] = "done"))

\* C24 witness: a pipeline whose Transcriber returned a text is over, Failed
\* with the exception text of its Summarizer.
C24_Witness ==
    \E j \in Jobs :
        /\ transcript[j].st = "ok" /\ raw_text[j] = transcript[j].val.text
        /\ SummarizerFailed(j, "boom") /\ FailedWith(j, "boom") /\ pc[j] = "done"

\* C25: a job whose Summarizer call was made has a Transcriber call that
\* returned a text, and while the Summarizer call is under way its user
\* message is that text, unchanged.
C25_SummarizerGetsTheTranscript ==
    \A j \in Jobs :
        completion[j].st # "none" =>
            /\ transcript[j].st = "ok"
            /\ completion[j].st = "running" =>
                   /\ Len(completion[j].args) = 2
                   /\ completion[j].args[2] =
                          [role |-> "user", content |-> transcript[j].val.text]

\* C25 witness: a Summarizer call is under way with the text "X" that the
\* Transcriber of the job returned.
C25_Witness ==
    \E j \in Jobs :
        /\ completion[j].st = "running"
        /\ transcript[j].val = TranscriptObj("X")
        /\ completion[j].args[2].content = "X"

C27_EveryEntryEnds ==
    \A id \in Ids :
        (id \in DOMAIN tasks_status)
            ~> (id \in DOMAIN tasks_status /\ tasks_status[id].completed)

\* The status dict s is a progress report of the given step: not completed,
\* without result and error, progress below 100.
HeartbeatStatus(s, step) ==
    /\ DOMAIN s = {"step", "progress", "message", "completed"}
    /\ s.step = step
    /\ s.completed = FALSE
    /\ s.progress \in 0..99

\* C28: a tick of the Transcriber heartbeat writes a progress report of step 2
\* over an entry of stage Transcribing, a tick of the Summarizer heartbeat one
\* of step 3 over an entry of stage Summarizing; the first makes at most 6
\* ticks, the second at most 8; a heartbeat that made them all can only end,
\* also with the call still under way, and ending writes nothing.
C28_HeartbeatStaysInItsStage ==
    /\ [](\A j \in Jobs :
             /\ progress_task[j].i <= 6
             /\ gpt_progress_task[j].i <= 8
             /\ (progress_task[j].state = "live" /\ progress_task[j].i = 6) =>
                    /\ ~ENABLED update_progress_during_api_call(j)
                    /\ pc[j] = "await_whisper" => ENABLED progress_task_ends(j)
             /\ (gpt_progress_task[j].state = "live" /\ gpt_progress_task[j].i = 8) =>
                    /\ ~ENABLED update_gpt_progress(j)
                    /\ ENABLED gpt_progress_task_ends(j))
    /\ [][\A j \in Jobs :
             /\ update_progress_during_api_call(j) =>
                    /\ Stage(Entry(j)) = "Transcribing"
                    /\ HeartbeatStatus(tasks_status'[task_id[j]], 2)
             /\ update_gpt_progress(j) =>
                    /\ Stage(Entry(j)) = "Summarizing"
                    /\ HeartbeatStatus(tasks_status'[task_id[j]], 3)
             /\ (progress_task_ends(j) \/ gpt_progress_task_ends(j)) =>
                    tasks_status' = tasks_status]_vars

\* C28 witness: the Transcriber heartbeat of a job has ended after its last
\* value, 90, with the call still under way, and the Summarizer heartbeat of
\* another has made its 8 ticks.
C28_Witness ==
    /\ \E j \in Jobs :
           /\ pc[j] = "await_whisper" /\ transcript[j].st = "running"
           /\ progress_task[j].state = "done"
           /\ Entry(j).progress = 90
    /\ \E j \in Jobs :
           /\ pc[j] = "await_gpt" /\ completion[j].st = "running"
           /\ gpt_progress_task[j].i = 8

\* C29: a registry entry has completed = True exactly when it holds the error
\* key or is the step 4 status with a result; the entry of a request is
\* completed exactly when its pipeline has made its terminal write (it is at
\* the deletion of the file, or over), so what transcribe_audio, the earlier
\* steps and the heartbeats wrote is not completed.
C29_CompletedIffTerminal ==
    /\ \A id \in DOMAIN tasks_status :
           LET s == tasks_status[id] IN
           s.completed <=>
               \/ HasError(s)
               \/ "step" \in DOMAIN s /\ s.step = 4 /\ HasResult(s)
    /\ \A j \in Jobs :
           HasEntry(j) => (Entry(j).completed <=> pc[j] \in {"unlink", "done"})

\* C29 witness: one entry is at step 2, progress 100, not completed, while
\* another job is over with its result.
C29_Witness ==
    \E i, j \in Jobs :
        /\ HasEntry(i) /\ Entry(i) = PlainStatus("w2_100") /\ ~Entry(i).completed
        /\ EndedCompleted(j) /\ Entry(j).completed

C31_DebugModeIsSelfContained ==
    /\ [](DEBUG_MODE =>
             \A j \in Jobs :
                 /\ transcript[j] = NotStarted /\ completion[j] = NotStarted
                 /\ progress_task[j] = NoTask /\ gpt_progress_task[j] = NoTask
                 /\ pc[j] \notin {"call_whisper", "await_whisper", "whisper_done",
                                  "call_gpt", "await_gpt"}
                 /\ pc[j] = "done" =>
                        \/ /\ HasResult(Entry(j))
                           /\ Entry(j).result =
                                  [raw_text |-> SampleText, minutes |-> SampleMinutes]
                        \/ exc[j] # "none" /\ HasError(Entry(j))
                        \/ Entry(j) \in {wrapper_error_status(e) : e \in ErrorTexts})
    /\ \A j \in Jobs :
           (DEBUG_MODE /\ pc[j] = "w1_5")
               ~> (pc[j] = "done" /\ (HasResult(Entry(j)) \/ exc[j] # "none"))

\* C31 witness: with DEBUG_MODE on, a pipeline is over with the sample texts
\* as its result and its temporary file deleted.
C31_Witness ==
    /\ DEBUG_MODE
    /\ \E j \in Jobs :
           /\ EndedCompleted(j) /\ temp_file[j] = "deleted"
           /\ Entry(j).result = [raw_text |-> SampleText, minutes |-> SampleMinutes]


\* A callback that has answered with the success page of an export.
ExportedBy(c, content_id) == cb_pc[c] = "success" /\ cb_content_id[c] = content_id
DocumentsOf(docs, content_id) == {d \in docs : d.content_id = content_id}

\* C32: once oauth_callback has exported the content of a content id
\* successfully, no callback carrying the same state, later or delivered
\* concurrently, creates another document for that content id.
C32_ExportedAtMostOnce ==
    [][\A content_id \in ContentIds :
           (\E c \in Callbacks : ExportedBy(c, content_id))
               => DocumentsOf(documents', content_id) = DocumentsOf(documents, content_id)]_vars

\* The step in which callback c stores the token (line 439).
StoresToken(c) ==
    /\ cb_pc[c] = "await_token"
    /\ cb_pc'[c] \in {"success", "success_folders", "error_export"}

\* C33: oauth_tokens changes only in oauth_callback after a token exchange that
\* returned an access token, and then under a content id start_oauth created
\* and export_content still holds; get_folder_list answers 401 without calling
\* Drive for a token id that has no stored token.
C33_TokenOnlyForLiveContent ==
    [][/\ oauth_tokens' # oauth_tokens => \E c \in Callbacks : StoresToken(c)
       /\ \A c \in Callbacks :
              StoresToken(c) =>
                  /\ cb_content_id[c] \in content_ids
                  /\ cb_content_id[c] \in DOMAIN export_content
                  /\ cb_content_id[c] \in DOMAIN oauth_tokens'
       /\ \A c \in Callbacks :
              (cb_pc'[c] # cb_pc[c] /\ cb_pc'[c] \in {"error_request", "error_token"})
                  => oauth_tokens' = oauth_tokens
       /\ (folderResp' # NoFolderResp /\ folderResp'.token_id \notin DOMAIN oauth_tokens)
              => folderResp'.code = 401 /\ ~folderResp'.drive_called]_vars

\* A folder build_folder_hierarchy treats as a root.
IsRoot(folder) == folder.parentId = None \/ folder.type = "shared_drive"
RootsWithId(id) ==
    {k \in 1..Len(hierarchy.hierarchy) : hierarchy.hierarchy[k].id = id}

\* C34: in what build_folder_hierarchy returns for folders with distinct ids,
\* every folder whose parentId is the id of a returned root is among that
\* root's children, and every folder without a parent, or of type
\* shared_drive, is a root exactly once.
C34_HierarchyHoldsTheChildren ==
    hierarchy.built =>
        \A i \in 1..Len(folder_list) :
            LET folder == folder_list[i] IN
            /\ IsRoot(folder) => Cardinality(RootsWithId(folder.id)) = 1
            /\ ~IsRoot(folder) =>
                   \A k \in RootsWithId(folder.parentId) :
                       \E n \in 1..Len(hierarchy.hierarchy[k].children) :
                           hierarchy.hierarchy[k].children[n].id = folder.id
====
